---- MODULE Spec2Model ----
(***************************************************************************)
(* ResetCharacterPosition (agent/common.py): one invocation of run, from   *)
(* the parsing of custom_action_param to the boolean handed to the host.   *)
(* The host framework (controller jobs, cached screenshot, recognition)    *)
(* is the environment: each of its calls returns or raises.                *)
(*                                                                         *)
(* install.py: one execution of the packaging script, from the loading of  *)
(* the module to the end of the process. The source tree it copies from    *)
(* is the environment: each path is there or is missing.                   *)
(***************************************************************************)
EXTENDS Integers, Sequences, FiniteSets, TLC

(* ------------------------------ bounds -------------------------------- *)
\* retry_times, when given as an integer, ranges over -1 .. MaxRetryTimes
MaxRetryTimes == 2
\* box widths and heights range over 0 .. MaxSize
MaxSize == 2

(* ------------------------- program constants -------------------------- *)
\* the source's default names the same file with the CJK word for "other"
DefaultTemplatePath == "common/other.png"
DefaultWaitDelay == 500
DefaultRetryTimes == 10
DefaultRetryInterval == 500
EscKey == 27
SettleMs == 100

(* ------------------------------ values -------------------------------- *)
\* A Python value as far as run distinguishes it: an int, a str, None; Absent
\* marks a key the mapping does not hold, Unbound a local not yet assigned.
IntV(n) == [t |-> "int", n |-> n, s |-> ""]
StrV(s) == [t |-> "str", n |-> 0, s |-> s]
NoneV == [t |-> "none", n |-> 0, s |-> ""]
Absent == [t |-> "absent", n |-> 0, s |-> ""]
Unbound == [t |-> "unbound", n |-> 0, s |-> ""]

TemplateValues == {StrV(DefaultTemplatePath), StrV("custom.png")}
DelayValues == {IntV(0), IntV(-1)}
RetryTimesValues == {IntV(n) : n \in -1 .. MaxRetryTimes} \cup {StrV("3")}
IntervalValues == {IntV(0), IntV(-1)}

\* The mappings a caller can pass: each key absent or holding one of its values.
Mappings ==
    {[template_path |-> a, wait_delay |-> b, retry_times |-> c, retry_interval |-> d] :
        a \in TemplateValues \cup {Absent}, b \in DelayValues \cup {Absent},
        c \in RetryTimesValues \cup {Absent}, d \in IntervalValues \cup {Absent}}

EmptyMapping ==
    [template_path |-> Absent, wait_delay |-> Absent, retry_times |-> Absent,
     retry_interval |-> Absent]

\* argv.custom_action_param: a dict, a str holding JSON text (of an object, of
\* a value that is no object, or no JSON at all), or a value of another type.
ParamObjects ==
    {[kind |-> "dict", json |-> "", m |-> m] : m \in Mappings}
    \cup {[kind |-> "str", json |-> "object", m |-> m] : m \in Mappings}
    \cup {[kind |-> "str", json |-> j, m |-> EmptyMapping] : j \in {"array", "invalid"}}
    \cup {[kind |-> "other", json |-> "", m |-> EmptyMapping]}

\* The objects whose runs are explored: every malformed text, the object of
\* another type (the one run with the default retry_times), and every dict or
\* JSON object that holds retry_times.
RunObjects ==
    {p \in ParamObjects :
        \/ p.kind = "other"
        \/ p.json \in {"array", "invalid"}
        \/ p.m.retry_times # Absent}

(* ------------------------- installer's values ------------------------- *)
\* Line 20: the version written when the command line names none.
DefaultVersion == "v0.0.1"

\* sys.argv: the script's name, then the arguments of the command line.
ArgLists ==
    {<<"install.py">>, <<"install.py", "">>, <<"install.py", "v1.2.0">>,
     <<"install.py", "v1.2.0", "extra">>}

\* The paths under working_dir that the script reads.
SourcePaths ==
    {"deps/bin", "deps/share/MaaAgentBinary", "assets/resource",
     "assets/interface.json", "README.md", "LICENSE", "requirements-windows.txt",
     "requirements-base.txt", "requirements.txt", "agent"}

\* A field the manifest does not hold.
NoField == "<no field>"

\* The fields of a manifest that is a JSON object.
ManifestObjects ==
    [name : {"MaD"}, version : {NoField, "v0.0.0"}, agent : {NoField, "python"}]
NoFields == [name |-> NoField, version |-> NoField, agent |-> NoField]

\* interface.json as a file: JSON text of an object or of another value, or
\* text that is no JSON; the text may carry comments. NoFile: no such file.
NoFile == [kind |-> "nofile", comments |-> FALSE, fields |-> NoFields]
ManifestFiles ==
    {[kind |-> "object", comments |-> c, fields |-> f] :
        c \in BOOLEAN, f \in ManifestObjects}
    \cup {[kind |-> "array", comments |-> c, fields |-> NoFields] : c \in BOOLEAN}
    \cup {[kind |-> "invalid", comments |-> FALSE, fields |-> NoFields]}

\* The value of `interface` before line 62 binds it.
NoInterface == [kind |-> "unbound", fields |-> NoFields]

(* --------------------------- pure functions --------------------------- *)
\* A bug Version could have: `sys.argv[1] if len(sys.argv) > 1 else "v0.0.1"`,
\* which keeps an empty argument.
VersionKeepsEmpty(a) == IF Len(a) > 1 THEN a[2] ELSE DefaultVersion

\* Line 20: `len(sys.argv) > 1 and sys.argv[1] or "v0.0.1"`; sys.argv[1] is
\* the second element, and the empty string is falsy.
Version(a) == IF Len(a) > 1 /\ a[2] # "" THEN a[2] ELSE DefaultVersion

\* jsonc.load: raises on text that is no JSON; otherwise the decoded value,
\* which carries none of the text's comments.
JsoncLoad(f) ==
    [raised |-> f.kind \notin {"object", "array"},
     value |-> [kind |-> f.kind, fields |-> f.fields]]

\* jsonc.dump: the text of a value, without comments.
JsoncDump(v) == [kind |-> v.kind, comments |-> FALSE, fields |-> v.fields]

\* Lines 82-113: the requirements file install_chores copies, chosen by the
\* platform (a .dll under deps/bin means Windows) and by what exists.
RequirementsSource(tree, dll) ==
    LET is_windows == "deps/bin" \in tree /\ dll
        wanted == IF is_windows THEN "requirements-windows.txt"
                                ELSE "requirements-base.txt"
    IN IF wanted \in tree THEN wanted ELSE "requirements.txt"

\* json.loads: raises on text that is no JSON; otherwise the decoded value,
\* a dict only when the text is a JSON object.
JsonLoads(p) ==
    CASE p.json = "invalid" -> [raised |-> TRUE, isdict |-> FALSE, m |-> EmptyMapping]
      [] p.json = "object" -> [raised |-> FALSE, isdict |-> TRUE, m |-> p.m]
      [] OTHER -> [raised |-> FALSE, isdict |-> FALSE, m |-> EmptyMapping]

\* Lines 48-53: the value bound to params.
ParseParams(p) ==
    CASE p.kind = "str" -> JsonLoads(p)
      [] p.kind = "dict" -> [raised |-> FALSE, isdict |-> TRUE, m |-> p.m]
      [] OTHER -> [raised |-> FALSE, isdict |-> TRUE, m |-> EmptyMapping]

\* A bug Get could have: `params.get(key) or default`, which also replaces a
\* present value that is falsy.
GetOrDefault(m, k, d) ==
    IF m[k] = Absent \/ m[k] = IntV(0) \/ m[k] = NoneV THEN d ELSE m[k]

\* dict.get(key, default)
Get(m, k, d) == IF m[k] = Absent THEN d ELSE m[k]

\* time.sleep(v / 1000.0) raises TypeError unless v is a number and
\* ValueError when v is negative.
SleepRaises(v) == v.t # "int" \/ v.n < 0

\* range(1, retry_times + 1) raises TypeError unless retry_times is an int.
RangeRaises(v) == v.t # "int"

\* A bug HasNext could have: a loop that tests its budget after the body,
\* so that a first attempt is always made.
HasNextAtLeastOnce(a, rt) == a = 0 \/ a + 1 < rt + 1

\* A bug HasNext could have: range(1, retry_times + 2).
HasNextOneMore(a, rt) == a + 1 < rt + 2

\* The for loop has a next value after `a` when a + 1 < retry_times + 1.
HasNext(a, rt) == a + 1 < rt + 1

\* Lines 143 and 170: attempt < retry_times.
RetryAgain(a, rt) == a < rt

\* A bug Found could have: the test `reco_result.box.w == 0` is missing.
FoundAnyBox(r) == r.kind = "box"

\* Line 139: the negation of
\* `not reco_result or not reco_result.box or reco_result.box.w == 0`.
Found(r) == r.kind = "box" /\ r.w # 0

\* A bug ClickX could have: rounding the half width up.
ClickXRoundedUp(r) == r.x + (r.w + 1) \div 2

\* Lines 154-155: Python's // is floor division, as is \div.
ClickX(r) == r.x + r.w \div 2
ClickY(r) == r.y + r.h \div 2

\* The node each step recognises.
Node(k) ==
    CASE k = 2 -> "OCR_Settings"
      [] k = 3 -> "Template_Other"
      [] k = 4 -> "OCR_ResetCharacter"
      [] k = 5 -> "OCR_Confirm"
      [] OTHER -> ""
Nodes == {Node(k) : k \in 2 .. 5}

\* Lines 194-198: pipeline_override of step 3, "" standing for {}.
Override(k, tp) == IF k = 3 /\ tp # StrV(DefaultTemplatePath) THEN tp.s ELSE ""

\* What run_recognition can return.
NoResult == [kind |-> "none", x |-> 0, y |-> 0, w |-> 0, h |-> 0]
NoBox == [kind |-> "nobox", x |-> 0, y |-> 0, w |-> 0, h |-> 0]
UnboundResult == [kind |-> "unbound", x |-> 0, y |-> 0, w |-> 0, h |-> 0]
Origins == {0, 3}
Boxes ==
    {[kind |-> "box", x |-> x, y |-> y, w |-> w, h |-> h] :
        x \in Origins, y \in Origins, w \in 0 .. MaxSize, h \in 0 .. MaxSize}
RecoResults == {NoResult, NoBox} \cup Boxes

(* ------------------------------- state -------------------------------- *)
VARIABLES
    argv,            \* argv.custom_action_param
    template_path, wait_delay, retry_times, retry_interval,   \* run's locals
    pc,              \* the statement run (or the step it called) is at
    step,            \* the step method being executed, 0 before step 1
    attempt,         \* the for loop's variable of steps 2-5
    reco_result,     \* the step's local of that name, from its assignment to
                     \* its last read (the click point) or the except clause
    click_x, click_y,   \* the step's locals of these names, from their
                     \* assignment to the end of the click job's wait
    stepRet,         \* what the last step method returned
    result,          \* what run handed the host: "none" until it ends
    inflight,        \* jobs posted to the controller whose wait has not ended
    hostOp,          \* the last operation issued to the host
    lastSleep,       \* the last time.sleep that returned
    keyDone,         \* the ESC key job completed
    clickDone,       \* nodes whose recognised box was clicked, the job completed
    stepsOK,         \* how many step methods returned True
    failedStep,      \* the step method that returned False, 0 if none
    escapedFrom,     \* the step method an exception left, 0 if none
    topCaught,       \* an exception reached run's except clause
    recoAt,          \* the attempt in which reco_result was assigned, 0 if not
    capAt,           \* the attempt whose opening screencap completed, 0 if not
    imageAt,         \* the attempt in which image was read, 0 if not
    clickAt,         \* the attempt in which a click job was posted, 0 if not
    recoInStep,      \* run_recognition calls issued by the current step
    recoTotal,       \* run_recognition calls issued by this invocation
    retrySleeps      \* retry_interval sleeps that returned in the current step

\* install.py
VARIABLES
    sys_argv,        \* sys.argv
    srcTree,         \* the paths of SourcePaths that exist
    hasDll,          \* deps/bin holds a .dll file
    assetsManifest,  \* the file assets/interface.json
    version,         \* the module's global of that name, "" before line 20
    ipc,             \* the statement the script is at
    interface,       \* install_resource's local of that name
    installed,       \* the copies made into install_path, as <<source, target>>
    installedManifest,   \* the file install/interface.json
    stages,          \* the stage functions called so far, in order
    exit             \* how the process ended, and at which statement

locals == <<template_path, wait_delay, retry_times, retry_interval>>
control == <<pc, step, attempt, reco_result, click_x, click_y, stepRet, result>>
ghost == <<inflight, hostOp, lastSleep, keyDone, clickDone, stepsOK, failedStep,
           escapedFrom, topCaught, recoAt, capAt, imageAt, clickAt, recoInStep,
           recoTotal, retrySleeps>>
installer == <<sys_argv, srcTree, hasDll, assetsManifest, version, ipc, interface,
               installed, installedManifest, stages, exit>>
vars == <<argv, locals, control, ghost, installer>>

NoOp == [op |-> "none", step |-> 0, attempt |-> 0, key |-> 0, node |-> "",
         override |-> ""]
NoSleep == [what |-> "none", ms |-> 0]

\* An operation issued to the host by the statement at hand.
Op(o, k, nd, ov) ==
    [op |-> o, step |-> step, attempt |-> attempt, key |-> k, node |-> nd,
     override |-> ov]

\* Everything but argv, before run's first statement.
Start ==
    /\ template_path = Unbound /\ wait_delay = Unbound
    /\ retry_times = Unbound /\ retry_interval = Unbound
    /\ pc = "parse" /\ step = 0 /\ attempt = 0
    /\ reco_result = UnboundResult /\ click_x = Unbound /\ click_y = Unbound
    /\ stepRet = TRUE /\ result = "none"
    /\ inflight = 0 /\ hostOp = NoOp /\ lastSleep = NoSleep
    /\ keyDone = FALSE /\ clickDone = {} /\ stepsOK = 0
    /\ failedStep = 0 /\ escapedFrom = 0 /\ topCaught = FALSE
    /\ recoAt = 0 /\ capAt = 0 /\ imageAt = 0 /\ clickAt = 0
    /\ recoInStep = 0 /\ recoTotal = 0 /\ retrySleeps = 0

\* The script is not running.
InstallIdle ==
    /\ sys_argv = <<>> /\ srcTree = {} /\ hasDll = FALSE
    /\ assetsManifest = NoFile /\ version = "" /\ ipc = "idle"
    /\ interface = NoInterface /\ installed = {} /\ installedManifest = NoFile
    /\ stages = <<>> /\ exit = [how |-> "none", status |-> 0, at |-> ""]

Init == argv \in RunObjects /\ Start /\ InstallIdle

(* -------------------------------- run --------------------------------- *)
\* A bug RunParse could have: text that cannot be used falls back to {}
\* and the defaults.
RunParseFallsBack ==
    /\ pc = "parse"
    /\ LET r == ParseParams(argv)
           m == IF r.raised \/ ~r.isdict THEN EmptyMapping ELSE r.m
       IN /\ template_path' = Get(m, "template_path", StrV(DefaultTemplatePath))
          /\ wait_delay' = Get(m, "wait_delay", IntV(DefaultWaitDelay))
          /\ retry_times' = Get(m, "retry_times", IntV(DefaultRetryTimes))
          /\ retry_interval' = Get(m, "retry_interval", IntV(DefaultRetryInterval))
          /\ pc' = "s1_post_key"
          /\ step' = 1
    /\ UNCHANGED <<argv, installer, attempt, reco_result, click_x, click_y, stepRet, result, ghost>>

\* Lines 46-59: bind params and the four locals; json.loads on bad text and
\* .get on a value that is no dict raise into run's except clause.
RunParse ==
    /\ pc = "parse"
    /\ LET r == ParseParams(argv) IN
         IF r.raised \/ ~r.isdict
           THEN /\ pc' = "run_except"
                /\ UNCHANGED <<locals, step>>
           ELSE /\ template_path' = Get(r.m, "template_path", StrV(DefaultTemplatePath))
                /\ wait_delay' = Get(r.m, "wait_delay", IntV(DefaultWaitDelay))
                /\ retry_times' = Get(r.m, "retry_times", IntV(DefaultRetryTimes))
                /\ retry_interval' = Get(r.m, "retry_interval", IntV(DefaultRetryInterval))
                /\ pc' = "s1_post_key"
                /\ step' = 1
    /\ UNCHANGED <<argv, installer, attempt, reco_result, click_x, click_y, stepRet, result, ghost>>

\* A bug RunCheck could have: the result of step 3 is not tested.
RunCheckIgnoresStep3 ==
    /\ pc = "run_check"
    /\ IF ~stepRet /\ step # 3
         THEN /\ result' = "false" /\ pc' = "done"
              /\ UNCHANGED <<step, attempt, reco_result, click_x, click_y, recoAt, capAt, imageAt, clickAt,
                             recoInStep, retrySleeps>>
         ELSE IF step = 5
           THEN /\ result' = "true" /\ pc' = "done"
                /\ UNCHANGED <<step, attempt, reco_result, click_x, click_y, recoAt, capAt, imageAt, clickAt,
                               recoInStep, retrySleeps>>
           ELSE /\ step' = step + 1 /\ pc' = "range"
                /\ attempt' = 0 /\ reco_result' = UnboundResult
                /\ click_x' = Unbound /\ click_y' = Unbound
                /\ recoAt' = 0 /\ capAt' = 0 /\ imageAt' = 0 /\ clickAt' = 0 /\ recoInStep' = 0 /\ retrySleeps' = 0
                /\ UNCHANGED result
    /\ UNCHANGED <<argv, installer, locals, stepRet, inflight, hostOp, lastSleep, keyDone,
                   clickDone, stepsOK, failedStep, escapedFrom, topCaught, recoTotal>>

\* A bug RunCheck could have: step 3 is never called.
RunCheckSkipsStep3 ==
    /\ pc = "run_check"
    /\ IF ~stepRet
         THEN /\ result' = "false" /\ pc' = "done"
              /\ UNCHANGED <<step, attempt, reco_result, click_x, click_y, recoAt, capAt, imageAt, clickAt,
                             recoInStep, retrySleeps>>
         ELSE IF step = 5
           THEN /\ result' = "true" /\ pc' = "done"
                /\ UNCHANGED <<step, attempt, reco_result, click_x, click_y, recoAt, capAt, imageAt, clickAt,
                               recoInStep, retrySleeps>>
           ELSE /\ step' = IF step = 2 THEN 4 ELSE step + 1
                /\ pc' = "range"
                /\ attempt' = 0 /\ reco_result' = UnboundResult
                /\ click_x' = Unbound /\ click_y' = Unbound
                /\ recoAt' = 0 /\ capAt' = 0 /\ imageAt' = 0 /\ clickAt' = 0 /\ recoInStep' = 0 /\ retrySleeps' = 0
                /\ UNCHANGED result
    /\ UNCHANGED <<argv, installer, locals, stepRet, inflight, hostOp, lastSleep, keyDone,
                   clickDone, stepsOK, failedStep, escapedFrom, topCaught, recoTotal>>

\* Lines 70-92: `if not self._stepK(...): return False`, the call of the next
\* step, and `return True` after step 5.
RunCheck ==
    /\ pc = "run_check"
    /\ IF ~stepRet
         THEN /\ result' = "false" /\ pc' = "done"
              /\ UNCHANGED <<step, attempt, reco_result, click_x, click_y, recoAt, capAt, imageAt, clickAt, recoInStep, retrySleeps>>
         ELSE IF step = 5
           THEN /\ result' = "true" /\ pc' = "done"
                /\ UNCHANGED <<step, attempt, reco_result, click_x, click_y, recoAt, capAt, imageAt, clickAt, recoInStep, retrySleeps>>
           ELSE /\ step' = step + 1 /\ pc' = "range"
                /\ attempt' = 0 /\ reco_result' = UnboundResult
                /\ click_x' = Unbound /\ click_y' = Unbound
                /\ recoAt' = 0 /\ capAt' = 0 /\ imageAt' = 0 /\ clickAt' = 0 /\ recoInStep' = 0 /\ retrySleeps' = 0
                /\ UNCHANGED result
    /\ UNCHANGED <<argv, installer, locals, stepRet, inflight, hostOp, lastSleep, keyDone,
                   clickDone, stepsOK, failedStep, escapedFrom, topCaught, recoTotal>>

\* A bug RunExcept could have: the handler logs and re-raises.
RunExceptReraises ==
    /\ pc = "run_except"
    /\ topCaught' = TRUE
    /\ result' = "raised"
    /\ pc' = "done"
    /\ UNCHANGED <<argv, installer, locals, step, attempt, reco_result, click_x, click_y, stepRet,
                   inflight, hostOp, lastSleep, keyDone, clickDone, stepsOK,
                   failedStep, escapedFrom, recoAt, capAt, imageAt, clickAt, recoInStep, recoTotal, retrySleeps>>

\* Lines 94-96: except Exception: log and return False.
RunExcept ==
    /\ pc = "run_except"
    /\ topCaught' = TRUE
    /\ result' = "false"
    /\ pc' = "done"
    /\ UNCHANGED <<argv, installer, locals, step, attempt, reco_result, click_x, click_y, stepRet, inflight, hostOp,
                   lastSleep, keyDone, clickDone, stepsOK, failedStep, escapedFrom,
                   recoAt, capAt, imageAt, clickAt, recoInStep, recoTotal, retrySleeps>>

(* ------------------------- step 1: press ESC -------------------------- *)
\* What no statement of a step method changes.
stepFrame == <<argv, installer, locals, step, result, topCaught>>

\* A bug S1PostKey could have: the key job is posted and never waited on.
S1PostKeyNoWait ==
    /\ pc = "s1_post_key"
    /\ hostOp' = Op("post_click_key", EscKey, "", "")
    /\ \E ok \in BOOLEAN :
         IF ok THEN inflight' = inflight + 1 /\ pc' = "s1_sleep"
               ELSE inflight' = inflight /\ pc' = "s1_except"
    /\ UNCHANGED <<stepFrame, attempt, reco_result, click_x, click_y, stepRet, lastSleep,
                   keyDone, clickDone, stepsOK, failedStep, escapedFrom, recoAt, capAt, imageAt, clickAt,
                   recoInStep, recoTotal, retrySleeps>>

\* Line 105: controller.post_click_key(27).
S1PostKey ==
    /\ pc = "s1_post_key"
    /\ hostOp' = Op("post_click_key", EscKey, "", "")
    /\ \E ok \in BOOLEAN :
         IF ok THEN inflight' = inflight + 1 /\ pc' = "s1_wait_key"
               ELSE inflight' = inflight /\ pc' = "s1_except"
    /\ UNCHANGED <<stepFrame, attempt, reco_result, click_x, click_y, stepRet, lastSleep, keyDone,
                   clickDone, stepsOK, failedStep, escapedFrom, recoAt, capAt, imageAt, clickAt, recoInStep,
                   recoTotal, retrySleeps>>

\* Line 106: click_job.wait(). A job is in flight from its post until the
\* wait on it ends, by returning (the job completed) or by raising.
S1WaitKey ==
    /\ pc = "s1_wait_key"
    /\ hostOp' = Op("wait", EscKey, "", "")
    /\ inflight' = inflight - 1
    /\ \E ok \in BOOLEAN :
         IF ok THEN keyDone' = TRUE /\ pc' = "s1_sleep"
               ELSE keyDone' = keyDone /\ pc' = "s1_except"
    /\ UNCHANGED <<stepFrame, attempt, reco_result, click_x, click_y, stepRet, lastSleep,
                   clickDone, stepsOK, failedStep, escapedFrom, recoAt, capAt, imageAt, clickAt, recoInStep,
                   recoTotal, retrySleeps>>

\* Line 110: time.sleep(wait_delay / 1000.0).
S1Sleep ==
    /\ pc = "s1_sleep"
    /\ IF SleepRaises(wait_delay)
         THEN pc' = "s1_except" /\ lastSleep' = lastSleep
         ELSE pc' = "s1_post_cap" /\ lastSleep' = [what |-> "delay", ms |-> wait_delay.n]
    /\ UNCHANGED <<stepFrame, attempt, reco_result, click_x, click_y, stepRet, inflight, hostOp, keyDone,
                   clickDone, stepsOK, failedStep, escapedFrom, recoAt, capAt, imageAt, clickAt, recoInStep,
                   recoTotal, retrySleeps>>

\* Line 113: controller.post_screencap() ...
S1PostCap ==
    /\ pc = "s1_post_cap"
    /\ hostOp' = Op("post_screencap", 0, "", "")
    /\ \E ok \in BOOLEAN :
         IF ok THEN inflight' = inflight + 1 /\ pc' = "s1_wait_cap"
               ELSE inflight' = inflight /\ pc' = "s1_except"
    /\ UNCHANGED <<stepFrame, attempt, reco_result, click_x, click_y, stepRet, lastSleep, keyDone,
                   clickDone, stepsOK, failedStep, escapedFrom, recoAt, capAt, imageAt, clickAt, recoInStep,
                   recoTotal, retrySleeps>>

\* Lines 113-115: ... .wait(), then return True.
S1WaitCap ==
    /\ pc = "s1_wait_cap"
    /\ hostOp' = Op("wait", 0, "", "")
    /\ inflight' = inflight - 1
    /\ \E ok \in BOOLEAN :
         IF ok THEN stepRet' = TRUE /\ stepsOK' = stepsOK + 1 /\ pc' = "run_check"
               ELSE stepRet' = stepRet /\ stepsOK' = stepsOK /\ pc' = "s1_except"
    /\ UNCHANGED <<stepFrame, attempt, reco_result, click_x, click_y, lastSleep, keyDone,
                   clickDone, failedStep, escapedFrom, recoAt, capAt, imageAt, clickAt, recoInStep,
                   recoTotal, retrySleeps>>

\* A bug S1Except could have: the handler presses the key again.
S1ExceptRetries ==
    /\ pc = "s1_except"
    /\ pc' = "s1_post_key"
    /\ UNCHANGED <<stepFrame, attempt, reco_result, click_x, click_y, stepRet, inflight, hostOp, lastSleep, keyDone,
                   clickDone, stepsOK, failedStep, escapedFrom, recoAt, capAt, imageAt, clickAt, recoInStep,
                   recoTotal, retrySleeps>>

\* Lines 117-119: except Exception: log and return False.
S1Except ==
    /\ pc = "s1_except"
    /\ stepRet' = FALSE
    /\ failedStep' = step
    /\ pc' = "run_check"
    /\ UNCHANGED <<stepFrame, attempt, reco_result, click_x, click_y, inflight, hostOp, lastSleep, keyDone,
                   clickDone, stepsOK, escapedFrom, recoAt, capAt, imageAt, clickAt, recoInStep,
                   recoTotal, retrySleeps>>

(* -------------- steps 2-5: recognise a node and click it -------------- *)
\* The four step methods are the same code up to the node they recognise,
\* the pipeline_override of step 3 and the settling sleep of step 5; line
\* numbers are those of _step2_click_settings.

\* `return False` of a step method.
ReturnFalse ==
    /\ stepRet' = FALSE
    /\ failedStep' = step
    /\ pc' = "run_check"

\* `return True` of a step method.
ReturnTrue ==
    /\ stepRet' = TRUE
    /\ stepsOK' = stepsOK + 1
    /\ pc' = "run_check"

\* Line 125: range(1, retry_times + 1) is evaluated once, outside the try.
StepRange ==
    /\ pc = "range"
    /\ IF RangeRaises(retry_times)
         THEN pc' = "run_except" /\ escapedFrom' = step
         ELSE pc' = "loop" /\ escapedFrom' = escapedFrom
    /\ UNCHANGED <<stepFrame, attempt, reco_result, click_x, click_y, stepRet, inflight, hostOp, lastSleep,
                   keyDone, clickDone, stepsOK, failedStep, recoAt, capAt, imageAt, clickAt, recoInStep,
                   recoTotal, retrySleeps>>

\* A bug LoopNext could have: an exhausted loop starts over.
LoopNextWraps ==
    /\ pc = "loop"
    /\ IF HasNext(attempt, retry_times.n)
         THEN attempt' = attempt + 1 /\ pc' = "post_cap"
         ELSE attempt' = 0 /\ pc' = "loop"
    /\ UNCHANGED <<stepFrame, stepRet, failedStep, reco_result, click_x, click_y, inflight, hostOp, lastSleep,
                   keyDone, clickDone, stepsOK, escapedFrom, recoAt, capAt, imageAt, clickAt, recoInStep,
                   recoTotal, retrySleeps>>

\* Lines 125 and 175: the loop binds the next attempt, or is exhausted and
\* the method falls through to its last `return False`.
LoopNext ==
    /\ pc = "loop"
    /\ IF HasNext(attempt, retry_times.n)
         THEN /\ attempt' = attempt + 1 /\ pc' = "post_cap"
              /\ UNCHANGED <<stepRet, failedStep>>
         ELSE /\ ReturnFalse
              /\ UNCHANGED attempt
    /\ UNCHANGED <<stepFrame, reco_result, click_x, click_y, inflight, hostOp, lastSleep,
                   keyDone, clickDone, stepsOK, escapedFrom, recoAt, capAt, imageAt, clickAt, recoInStep,
                   recoTotal, retrySleeps>>

\* Line 130: controller.post_screencap() ...
AttemptPostCap ==
    /\ pc = "post_cap"
    /\ hostOp' = Op("post_screencap", 0, "", "")
    /\ \E ok \in BOOLEAN :
         IF ok THEN inflight' = inflight + 1 /\ pc' = "wait_cap"
               ELSE inflight' = inflight /\ pc' = "except"
    /\ UNCHANGED <<stepFrame, attempt, reco_result, click_x, click_y, stepRet, lastSleep, keyDone,
                   clickDone, stepsOK, failedStep, escapedFrom, recoAt, capAt, imageAt, clickAt, recoInStep,
                   recoTotal, retrySleeps>>

\* Line 130: ... .wait().
AttemptWaitCap ==
    /\ pc = "wait_cap"
    /\ hostOp' = Op("wait", 0, "", "")
    /\ inflight' = inflight - 1
    /\ \E ok \in BOOLEAN :
         IF ok THEN capAt' = attempt /\ pc' = "read_image"
               ELSE capAt' = capAt /\ pc' = "except"
    /\ UNCHANGED <<stepFrame, attempt, reco_result, click_x, click_y, stepRet, lastSleep, keyDone,
                   clickDone, stepsOK, failedStep, escapedFrom, recoAt, imageAt, clickAt, recoInStep,
                   recoTotal, retrySleeps>>

\* Line 131: image = controller.cached_image.
ReadImage ==
    /\ pc = "read_image"
    /\ hostOp' = Op("cached_image", 0, "", "")
    /\ \E ok \in BOOLEAN :
         IF ok THEN imageAt' = capAt /\ pc' = "reco"
               ELSE imageAt' = imageAt /\ pc' = "except"
    /\ UNCHANGED <<stepFrame, attempt, reco_result, click_x, click_y, stepRet, inflight, lastSleep, keyDone,
                   clickDone, stepsOK, failedStep, escapedFrom, recoAt, capAt, clickAt, recoInStep,
                   recoTotal, retrySleeps>>

\* Lines 134-137 (191-199 in step 3): reco_result = context.run_recognition(...).
RunRecognition ==
    /\ pc = "reco"
    /\ hostOp' = Op("run_recognition", 0, Node(step), Override(step, template_path))
    /\ recoInStep' = recoInStep + 1
    /\ recoTotal' = recoTotal + 1
    /\ \/ /\ pc' = "except"
          /\ UNCHANGED <<reco_result, recoAt>>
       \/ \E r \in RecoResults :
            /\ reco_result' = r
            /\ recoAt' = attempt
            /\ pc' = "check"
    /\ UNCHANGED <<stepFrame, attempt, click_x, click_y, stepRet, inflight, lastSleep, keyDone,
                   clickDone, stepsOK, failedStep, escapedFrom, capAt, imageAt, clickAt,
                   retrySleeps>>

\* Lines 139-149: nothing found: sleep and continue while attempts remain,
\* return False after the last one; the sleep is inside the try.
CheckReco ==
    /\ pc = "check"
    /\ IF Found(reco_result)
         THEN /\ pc' = "post_click"
              /\ UNCHANGED <<reco_result, recoAt, capAt, imageAt, clickAt, stepRet, failedStep, lastSleep, retrySleeps>>
         ELSE /\ reco_result' = UnboundResult /\ recoAt' = 0 /\ capAt' = 0 /\ imageAt' = 0 /\ clickAt' = 0
              /\ IF RetryAgain(attempt, retry_times.n)
                   THEN IF SleepRaises(retry_interval)
                          THEN /\ pc' = "except"
                               /\ UNCHANGED <<stepRet, failedStep, lastSleep, retrySleeps>>
                          ELSE /\ pc' = "loop"
                               /\ lastSleep' = [what |-> "retry", ms |-> retry_interval.n]
                               /\ retrySleeps' = retrySleeps + 1
                               /\ UNCHANGED <<stepRet, failedStep>>
                   ELSE /\ ReturnFalse
                        /\ UNCHANGED <<lastSleep, retrySleeps>>
    /\ UNCHANGED <<stepFrame, attempt, click_x, click_y, inflight, hostOp, keyDone,
                   clickDone, stepsOK, escapedFrom, recoInStep, recoTotal>>

\* Lines 154-157: the click point and controller.post_click(click_x, click_y).
PostClick ==
    /\ pc = "post_click"
    /\ click_x' = IntV(ClickX(reco_result))
    /\ click_y' = IntV(ClickY(reco_result))
    /\ hostOp' = Op("post_click", 0, Node(step), "")
    /\ clickAt' = attempt
    /\ \E ok \in BOOLEAN :
         IF ok THEN inflight' = inflight + 1 /\ pc' = "wait_click"
               ELSE inflight' = inflight /\ pc' = "except"
    /\ UNCHANGED <<stepFrame, attempt, reco_result, stepRet, lastSleep, keyDone,
                   clickDone, stepsOK, failedStep, escapedFrom, recoAt, capAt, imageAt, recoInStep,
                   recoTotal, retrySleeps>>

\* A bug WaitClick could have: a click whose wait raised is posted again at
\* once, within the attempt.
WaitClickReposts ==
    /\ pc = "wait_click"
    /\ hostOp' = Op("wait", 0, Node(step), "")
    /\ inflight' = inflight - 1
    /\ \E ok \in BOOLEAN :
         IF ok THEN /\ clickDone' = clickDone \cup {Node(step)} /\ pc' = "delay"
                    /\ reco_result' = UnboundResult /\ recoAt' = 0
                    /\ capAt' = 0 /\ imageAt' = 0
                    /\ click_x' = Unbound /\ click_y' = Unbound
               ELSE /\ clickDone' = clickDone /\ pc' = "post_click"
                    /\ UNCHANGED <<reco_result, click_x, click_y, recoAt, capAt, imageAt>>
    /\ UNCHANGED <<stepFrame, attempt, clickAt, stepRet, lastSleep, keyDone,
                   stepsOK, failedStep, escapedFrom, recoInStep,
                   recoTotal, retrySleeps>>

\* Line 158: click_job.wait().
WaitClick ==
    /\ pc = "wait_click"
    /\ hostOp' = Op("wait", 0, Node(step), "")
    /\ inflight' = inflight - 1
    /\ \E ok \in BOOLEAN :
         IF ok THEN /\ clickDone' = clickDone \cup {Node(step)} /\ pc' = "delay"
                    /\ reco_result' = UnboundResult /\ recoAt' = 0
                    /\ capAt' = 0 /\ imageAt' = 0
                    /\ click_x' = Unbound /\ click_y' = Unbound
               ELSE /\ clickDone' = clickDone /\ pc' = "except"
                    /\ UNCHANGED <<reco_result, click_x, click_y, recoAt, capAt, imageAt>>
    /\ UNCHANGED <<stepFrame, attempt, clickAt, stepRet, lastSleep, keyDone,
                   stepsOK, failedStep, escapedFrom, recoInStep,
                   recoTotal, retrySleeps>>

\* Line 161: time.sleep(wait_delay / 1000.0).
ClickDelay ==
    /\ pc = "delay"
    /\ IF SleepRaises(wait_delay)
         THEN pc' = "except" /\ lastSleep' = lastSleep
         ELSE pc' = "post_cap2" /\ lastSleep' = [what |-> "delay", ms |-> wait_delay.n]
    /\ UNCHANGED <<stepFrame, attempt, reco_result, click_x, click_y, stepRet, inflight, hostOp, keyDone,
                   clickDone, stepsOK, failedStep, escapedFrom, recoAt, capAt, imageAt, clickAt, recoInStep,
                   recoTotal, retrySleeps>>

\* Line 164: controller.post_screencap() ...
RefreshPostCap ==
    /\ pc = "post_cap2"
    /\ hostOp' = Op("post_screencap", 0, Node(step), "")
    /\ \E ok \in BOOLEAN :
         IF ok THEN inflight' = inflight + 1 /\ pc' = "wait_cap2"
               ELSE inflight' = inflight /\ pc' = "except"
    /\ UNCHANGED <<stepFrame, attempt, reco_result, click_x, click_y, stepRet, lastSleep, keyDone,
                   clickDone, stepsOK, failedStep, escapedFrom, recoAt, capAt, imageAt, clickAt, recoInStep,
                   recoTotal, retrySleeps>>

\* Lines 164-166: ... .wait() and return True; step 5 first sleeps (line 335).
RefreshWaitCap ==
    /\ pc = "wait_cap2"
    /\ hostOp' = Op("wait", 0, Node(step), "")
    /\ inflight' = inflight - 1
    /\ \E ok \in BOOLEAN :
         IF ~ok THEN pc' = "except" /\ UNCHANGED <<stepRet, stepsOK>>
         ELSE IF step = 5 THEN pc' = "settle" /\ UNCHANGED <<stepRet, stepsOK>>
         ELSE ReturnTrue
    /\ UNCHANGED <<stepFrame, attempt, reco_result, click_x, click_y, lastSleep, keyDone,
                   clickDone, failedStep, escapedFrom, recoAt, capAt, imageAt, clickAt, recoInStep,
                   recoTotal, retrySleeps>>

\* Lines 335-337 of _step5_click_confirm: time.sleep(0.1); return True.
Settle ==
    /\ pc = "settle"
    /\ lastSleep' = [what |-> "settle", ms |-> SettleMs]
    /\ ReturnTrue
    /\ UNCHANGED <<stepFrame, attempt, reco_result, click_x, click_y, inflight, hostOp, keyDone,
                   clickDone, failedStep, escapedFrom, recoAt, capAt, imageAt, clickAt, recoInStep,
                   recoTotal, retrySleeps>>

\* A bug StepExcept could have: the handler retries at once, without sleeping.
StepExceptNoSleep ==
    /\ pc = "except"
    /\ reco_result' = UnboundResult /\ recoAt' = 0 /\ capAt' = 0 /\ imageAt' = 0 /\ clickAt' = 0
    /\ click_x' = Unbound /\ click_y' = Unbound
    /\ IF RetryAgain(attempt, retry_times.n)
         THEN /\ pc' = "loop"
              /\ UNCHANGED <<stepRet, failedStep, escapedFrom>>
         ELSE /\ ReturnFalse
              /\ UNCHANGED escapedFrom
    /\ UNCHANGED <<stepFrame, attempt, inflight, hostOp, keyDone, lastSleep, retrySleeps,
                   clickDone, stepsOK, recoInStep, recoTotal>>

\* Lines 168-173: except Exception: sleep while attempts remain, else return
\* False; this sleep is outside every try of the method.
StepExcept ==
    /\ pc = "except"
    /\ reco_result' = UnboundResult /\ recoAt' = 0 /\ capAt' = 0 /\ imageAt' = 0 /\ clickAt' = 0
    /\ click_x' = Unbound /\ click_y' = Unbound
    /\ IF RetryAgain(attempt, retry_times.n)
         THEN IF SleepRaises(retry_interval)
                THEN /\ pc' = "run_except" /\ escapedFrom' = step
                     /\ UNCHANGED <<stepRet, failedStep, lastSleep, retrySleeps>>
                ELSE /\ pc' = "loop"
                     /\ lastSleep' = [what |-> "retry", ms |-> retry_interval.n]
                     /\ retrySleeps' = retrySleeps + 1
                     /\ UNCHANGED <<stepRet, failedStep, escapedFrom>>
         ELSE /\ ReturnFalse
              /\ UNCHANGED <<lastSleep, retrySleeps, escapedFrom>>
    /\ UNCHANGED <<stepFrame, attempt, inflight, hostOp, keyDone,
                   clickDone, stepsOK, recoInStep, recoTotal>>

(* ---------------------------- specification --------------------------- *)
Next ==
    \/ RunParse \/ RunCheck \/ RunExcept
    \/ S1PostKey \/ S1WaitKey \/ S1Sleep \/ S1PostCap \/ S1WaitCap \/ S1Except
    \/ StepRange \/ LoopNext \/ AttemptPostCap \/ AttemptWaitCap \/ ReadImage
    \/ RunRecognition \/ CheckReco \/ PostClick \/ WaitClick \/ ClickDelay
    \/ RefreshPostCap \/ RefreshWaitCap \/ Settle \/ StepExcept

Spec == Init /\ [][Next]_vars

\* The parsing of every parameter object, on its own.
ParseInit == argv \in ParamObjects /\ Start /\ InstallIdle
ParseNext == RunParse \/ RunExcept
ParseSpec == ParseInit /\ [][ParseNext]_vars

\* Scheduling: run is straight-line code on one thread, and every host call
\* and sleep it makes returns or raises, so the statement it is at is
\* eventually executed. The runs are those of the dicts that hold
\* retry_times and of the malformed texts; the text of a JSON object runs as
\* the dict it decodes to.
FairInit ==
    /\ argv \in {p \in RunObjects : p.kind = "dict" \/ p.json \in {"array", "invalid"}}
    /\ Start /\ InstallIdle
FairSpec == FairInit /\ [][Next]_vars /\ WF_vars(Next)

TypeOK ==
    /\ result \in {"none", "true", "false"}
    /\ step \in 0 .. 5
    /\ inflight \in 0 .. 1

(* ----------------------------- install.py ----------------------------- *)
\* What no statement of the script changes.
installFrame ==
    <<argv, locals, control, ghost, sys_argv, srcTree, hasDll, assetsManifest>>

\* An exception nothing catches: the process ends with a traceback, status 1.
Uncaught ==
    /\ exit' = [how |-> "traceback", status |-> 1, at |-> ipc]
    /\ ipc' = "exited"

\* shutil.copytree / shutil.copy2 of src to dst under install_path, then the
\* statement `next`; the copy raises when src does not exist.
CopyInto(src, dst, next) ==
    IF src \in srcTree
      THEN /\ installed' = installed \cup {<<src, dst>>}
           /\ ipc' = next
           /\ UNCHANGED exit
      ELSE /\ Uncaught
           /\ UNCHANGED installed

\* Lines 18-20 and 122: the module's globals are bound, then __main__ runs.
LoadModule ==
    /\ ipc = "load"
    /\ version' = Version(sys_argv)
    /\ ipc' = "deps"
    /\ UNCHANGED <<installFrame, interface, installed, installedManifest, stages, exit>>

\* A bug InstallDepsCheck could have: the messages are printed and the
\* script goes on.
InstallDepsCheckNoExit ==
    /\ ipc = "deps"
    /\ stages' = Append(stages, "deps")
    /\ ipc' = "deps_bin"
    /\ UNCHANGED <<installFrame, version, interface, installed, installedManifest, exit>>

\* Lines 23-27: install_deps is called; without deps/bin it prints and
\* calls sys.exit(1).
InstallDepsCheck ==
    /\ ipc = "deps"
    /\ stages' = Append(stages, "deps")
    /\ IF "deps/bin" \notin srcTree
         THEN /\ exit' = [how |-> "sys.exit", status |-> 1, at |-> ipc]
              /\ ipc' = "exited"
         ELSE /\ ipc' = "deps_bin"
              /\ UNCHANGED exit
    /\ UNCHANGED <<installFrame, version, interface, installed, installedManifest>>

\* Lines 29-39: deps/bin is copied into install_path itself.
InstallDepsBin ==
    /\ ipc = "deps_bin"
    /\ CopyInto("deps/bin", ".", "deps_agent_binary")
    /\ UNCHANGED <<installFrame, version, interface, installedManifest, stages>>

\* Lines 40-44: deps/share/MaaAgentBinary is copied; install_deps returns.
InstallDepsAgentBinary ==
    /\ ipc = "deps_agent_binary"
    /\ CopyInto("deps/share/MaaAgentBinary", "MaaAgentBinary", "resource")
    /\ UNCHANGED <<installFrame, version, interface, installedManifest, stages>>

\* Line 49: install_resource is called and calls configure_ocr_model, whose
\* code is not part of the sources at hand: it returns or raises, and
\* leaves alone every file the script reads afterwards.
ConfigureOcrModel ==
    /\ ipc = "resource"
    /\ stages' = Append(stages, "resource")
    /\ \E ok \in BOOLEAN :
         IF ok THEN ipc' = "resource_tree" /\ UNCHANGED exit
               ELSE Uncaught
    /\ UNCHANGED <<installFrame, version, interface, installed, installedManifest>>

\* Lines 51-55: assets/resource is copied.
InstallResourceTree ==
    /\ ipc = "resource_tree"
    /\ CopyInto("assets/resource", "resource", "manifest_copy")
    /\ UNCHANGED <<installFrame, version, interface, installedManifest, stages>>

\* Lines 56-59: assets/interface.json is copied as it is.
CopyManifest ==
    /\ ipc = "manifest_copy"
    /\ CopyInto("assets/interface.json", "interface.json", "manifest_load")
    /\ installedManifest' =
         IF "assets/interface.json" \in srcTree THEN assetsManifest
                                                 ELSE installedManifest
    /\ UNCHANGED <<installFrame, version, interface, stages>>

\* Lines 61-62: interface = jsonc.load(f) on the copy.
LoadManifest ==
    /\ ipc = "manifest_load"
    /\ LET r == JsoncLoad(installedManifest) IN
         IF r.raised
           THEN Uncaught /\ UNCHANGED interface
           ELSE interface' = r.value /\ ipc' = "manifest_set" /\ UNCHANGED exit
    /\ UNCHANGED <<installFrame, version, installed, installedManifest, stages>>

\* Line 64: interface["version"] = version; a value that is no object
\* takes no string key and the assignment raises.
SetVersion ==
    /\ ipc = "manifest_set"
    /\ IF interface.kind = "object"
         THEN /\ interface' = [interface EXCEPT !.fields.version = version]
              /\ ipc' = "manifest_dump"
              /\ UNCHANGED exit
         ELSE Uncaught /\ UNCHANGED interface
    /\ UNCHANGED <<installFrame, version, installed, installedManifest, stages>>

\* Lines 66-67: the copy is rewritten with jsonc.dump; install_resource
\* returns.
DumpManifest ==
    /\ ipc = "manifest_dump"
    /\ installedManifest' = JsoncDump(interface)
    /\ ipc' = "chores"
    /\ UNCHANGED <<installFrame, version, interface, installed, stages, exit>>

\* Lines 71-74: install_chores is called and copies README.md.
ChoresReadme ==
    /\ ipc = "chores"
    /\ stages' = Append(stages, "chores")
    /\ CopyInto("README.md", "README.md", "chores_license")
    /\ UNCHANGED <<installFrame, version, interface, installedManifest>>

\* Lines 75-78: LICENSE is copied.
ChoresLicense ==
    /\ ipc = "chores_license"
    /\ CopyInto("LICENSE", "LICENSE", "chores_requirements")
    /\ UNCHANGED <<installFrame, version, interface, installedManifest, stages>>

\* Lines 82-113: the platform's requirements file is copied as
\* requirements.txt; install_chores returns.
ChoresRequirements ==
    /\ ipc = "chores_requirements"
    /\ CopyInto(RequirementsSource(srcTree, hasDll), "requirements.txt", "agent")
    /\ UNCHANGED <<installFrame, version, interface, installedManifest, stages>>

\* Lines 115-120: install_agent is called and copies agent.
InstallAgent ==
    /\ ipc = "agent"
    /\ stages' = Append(stages, "agent")
    /\ CopyInto("agent", "agent", "finish")
    /\ UNCHANGED <<installFrame, version, interface, installedManifest>>

\* Line 128: the last print; the script ends with status 0.
Finish ==
    /\ ipc = "finish"
    /\ exit' = [how |-> "returned", status |-> 0, at |-> ipc]
    /\ ipc' = "exited"
    /\ UNCHANGED <<installFrame, version, interface, installed, installedManifest, stages>>

\* One execution of the script: any command line, any source tree, any
\* manifest; run is not called.
InstallInit ==
    /\ argv = [kind |-> "other", json |-> "", m |-> EmptyMapping]
    /\ Start
    /\ sys_argv \in ArgLists
    /\ srcTree \in SUBSET SourcePaths
    /\ hasDll \in (IF "deps/bin" \in srcTree THEN BOOLEAN ELSE {FALSE})
    /\ assetsManifest \in
         (IF "assets/interface.json" \in srcTree THEN ManifestFiles ELSE {NoFile})
    /\ version = "" /\ ipc = "load"
    /\ interface = NoInterface /\ installed = {} /\ installedManifest = NoFile
    /\ stages = <<>> /\ exit = [how |-> "none", status |-> 0, at |-> ""]

InstallNext ==
    \/ LoadModule \/ InstallDepsCheck \/ InstallDepsBin \/ InstallDepsAgentBinary
    \/ ConfigureOcrModel \/ InstallResourceTree \/ CopyManifest \/ LoadManifest
    \/ SetVersion \/ DumpManifest \/ ChoresReadme \/ ChoresLicense
    \/ ChoresRequirements \/ InstallAgent \/ Finish

InstallSpec == InstallInit /\ [][InstallNext]_vars

(* ------------------------------- claims ------------------------------- *)
\* retry_times as the number of attempts it allows: none unless it is a
\* positive int.
Budget(v) == IF v.t = "int" /\ v.n > 0 THEN v.n ELSE 0

\* The statements of one attempt of steps 2-5, before its outcome is known.
AttemptBody ==
    {"post_cap", "wait_cap", "read_image", "reco", "check", "post_click",
     "wait_click", "delay", "post_cap2", "wait_cap2", "settle", "except"}

\* C1: run hands the host a boolean whatever the parameter object and
\* whichever host calls and sleeps raise: it ends with true or false, never
\* with an exception, and with false whenever an exception reached its
\* except clause.
C1_RunReturnsBoolean ==
    /\ result \in {"none", "true", "false"}
    /\ pc = "done" <=> result # "none"
    /\ topCaught => result = "false"

C1_Witness ==
    /\ pc = "done" /\ topCaught /\ result = "false"
    /\ hostOp.op = "run_recognition"

\* C2: once a step method has returned False, run returns false, enters no
\* later step and issues no further host operation.
C2_EarlyExit ==
    /\ [](failedStep # 0 => /\ pc \in {"run_check", "done"}
                            /\ step = failedStep
                            /\ result # "true"
                            /\ pc = "done" => result = "false")
    /\ [][failedStep # 0 => hostOp' = hostOp /\ failedStep' = failedStep]_vars

C2_Witness == failedStep = 3 /\ pc = "done" /\ result = "false"

\* C3 as stated: run returns true if and only if the ESC key job completed
\* and, for each of the four nodes, a recognised box of nonzero width was
\* clicked and the click job completed.
C3_TrueIffKeyAndClicks ==
    pc = "done" => (result = "true" <=> (keyDone /\ clickDone = Nodes))

\* C3 amended: run returns true if and only if all five step methods returned
\* True, which takes, after the key job and after each click job, the
\* wait_delay sleep and the screencap refresh of that step as well; a true
\* result implies the key job and the four clicks completed; and the
\* recognition of a node is issued only in its own step, after the key job
\* and the clicks of all earlier nodes completed.
C3_TrueIffAllStepsReturnedTrue ==
    /\ pc = "done" => (result = "true" <=> stepsOK = 5)
    /\ stepsOK >= 1 => keyDone
    /\ \A k \in 2 .. 5 : stepsOK >= k => Node(k) \in clickDone
    /\ result = "true" => keyDone /\ clickDone = Nodes
    /\ hostOp.op = "run_recognition" =>
         /\ hostOp.node = Node(hostOp.step)
         /\ hostOp.step \in 2 .. 5
         /\ stepsOK >= hostOp.step - 1
         /\ keyDone
         /\ \A j \in 2 .. hostOp.step - 1 : Node(j) \in clickDone
    /\ hostOp.op = "post_click" => hostOp.node = Node(hostOp.step)

C3_Witness == pc = "done" /\ result = "true" /\ stepsOK = 5 /\ clickDone = Nodes

\* C4: each of steps 2-5 makes at most retry_times attempts (none when
\* retry_times is not positive), each attempt issues at most one recognition
\* call and every attempt, whatever its outcome, consumes exactly one; the
\* count starts afresh in every step, and a run issues at most
\* 4 * retry_times recognition calls.
C4_RetryBounded ==
    /\ [](/\ attempt \in 0 .. Budget(retry_times)
          /\ recoInStep <= attempt
          /\ recoInStep <= Budget(retry_times)
          /\ recoTotal <= 4 * Budget(retry_times)
          /\ pc = "range" => attempt = 0 /\ recoInStep = 0)
    /\ [][attempt' # attempt => attempt' = attempt + 1 \/ (attempt' = 0 /\ step' # step)]_vars
    /\ [][recoInStep' # recoInStep /\ step' = step =>
            recoInStep' = recoInStep + 1 /\ recoTotal' = recoTotal + 1]_vars

C4_Witness ==
    /\ retry_times = IntV(MaxRetryTimes)
    /\ step = 5 /\ attempt = MaxRetryTimes
    /\ recoTotal = 4 * MaxRetryTimes

\* C5 as stated: with retry_times >= 1, a step among 2-5 ends without success
\* only after exactly retry_times attempts; it never gives up while attempts
\* remain, whatever wait_delay and retry_interval are.
C5_PollsUntilExhaustion ==
    (/\ step >= 2
     /\ retry_times.t = "int" /\ retry_times.n >= 1
     /\ failedStep = step \/ escapedFrom = step)
    => attempt = retry_times.n

\* C6: between two consecutive attempts of a step there is exactly one sleep
\* of retry_interval milliseconds, after a not-found attempt as after one that
\* raised; none follows the last attempt, so a step that returns False after
\* its retry_times >= 1 attempts has slept retry_times - 1 intervals (and none
\* when retry_times allows no attempt).
C6_FixedIntervalRetries ==
    /\ step >= 2 /\ pc \in AttemptBody => retrySleeps = attempt - 1
    /\ step >= 2 /\ pc = "loop" => retrySleeps = attempt
    /\ step >= 2 /\ failedStep = step =>
         retrySleeps = IF Budget(retry_times) >= 1 THEN retry_times.n - 1 ELSE 0
    /\ lastSleep.what = "retry" => lastSleep.ms = retry_interval.n

C6_Witness ==
    /\ failedStep = 3 /\ retry_times = IntV(MaxRetryTimes)
    /\ retrySleeps = MaxRetryTimes - 1 /\ lastSleep.what = "retry"

\* C7 as stated: no exception leaves a step method; whatever is raised while
\* a step executes is caught inside it.
C7_StepsCatchEverything == escapedFrom = 0

\* C8: a job posted to the controller is waited on before the next host
\* operation: at most one job is in flight, every post, cached-image read and
\* recognition is issued with none in flight, every wait with exactly one,
\* and none is in flight when run has returned.
C8_JobsNeverOverlap ==
    /\ [](inflight \in 0 .. 1 /\ (pc = "done" => inflight = 0))
    /\ [][hostOp' # hostOp =>
            IF hostOp'.op = "wait" THEN inflight = 1 /\ inflight' = 0
                                   ELSE inflight = 0]_vars

C8_Witness == inflight = 1 /\ hostOp.op = "post_click" /\ step = 5

\* C9: a click is posted at (x + floor(w/2), y + floor(h/2)) of the box the
\* recognition of that same step and attempt returned, a box of nonzero
\* width; floor(w/2) is the c with 2c <= w < 2c + 2.
C9_ClickAtBoxCenter ==
    hostOp.op = "post_click" /\ pc \in {"wait_click", "except"} =>
        /\ reco_result.kind = "box" /\ reco_result.w # 0
        /\ recoAt = attempt /\ hostOp.attempt = attempt /\ hostOp.step = step
        /\ click_x.t = "int" /\ click_y.t = "int"
        /\ 2 * (click_x.n - reco_result.x) <= reco_result.w
        /\ reco_result.w < 2 * (click_x.n - reco_result.x) + 2
        /\ 2 * (click_y.n - reco_result.y) <= reco_result.h
        /\ reco_result.h < 2 * (click_y.n - reco_result.y) + 2

C9_Witness ==
    /\ hostOp.op = "post_click" /\ pc = "wait_click"
    /\ reco_result.w = 1 /\ reco_result.h = 0
    /\ reco_result.x = 3 /\ reco_result.y = 0
    /\ click_x = IntV(3) /\ click_y = IntV(0)
    /\ attempt = 2

\* C10: once the parameter object is parsed, each of the four locals holds
\* the value its key has in the dict or JSON object, or its default when the
\* key is absent, key by key; an object that is neither str nor dict gives
\* the four defaults.
C10_OptionalKeys ==
    (pc \notin {"parse", "run_except"} /\ step >= 1) =>
        LET m == IF argv.kind = "other" THEN EmptyMapping ELSE argv.m
            Given(k, d) == IF m[k] = Absent THEN d ELSE m[k]
        IN /\ argv.kind = "other" \/ argv.kind = "dict"
                \/ (argv.kind = "str" /\ argv.json = "object")
           /\ template_path = Given("template_path", StrV(DefaultTemplatePath))
           /\ wait_delay = Given("wait_delay", IntV(DefaultWaitDelay))
           /\ retry_times = Given("retry_times", IntV(DefaultRetryTimes))
           /\ retry_interval = Given("retry_interval", IntV(DefaultRetryInterval))

C10_Witness ==
    /\ pc = "s1_post_key"
    /\ argv.kind = "str" /\ argv.m.retry_times = Absent /\ argv.m.wait_delay = IntV(0)
    /\ retry_times = IntV(10) /\ wait_delay = IntV(0)
    /\ template_path = StrV(DefaultTemplatePath) /\ retry_interval = IntV(500)

\* The statements the script reaches only after install_resource returned.
AfterResource ==
    {"chores", "chores_license", "chores_requirements", "agent", "finish"}

\* install_resource has returned, wherever the script is or ended since.
ResourceReturned == ipc \in AfterResource \/ (ipc = "exited" /\ exit.at \in AfterResource)

\* C11: once install_resource has returned, install/interface.json is a JSON
\* object that holds every field of assets/interface.json other than
\* "version" with the value it has there, and none besides; its "version"
\* is the first command-line argument when there is one and it is not
\* empty, and "v0.0.1" otherwise; assets/interface.json is left as it was.
C11_ManifestVersionOnly ==
    ResourceReturned =>
        /\ assetsManifest.kind = "object"
        /\ installedManifest.kind = "object"
        /\ installedManifest.fields.name = assetsManifest.fields.name
        /\ installedManifest.fields.agent = assetsManifest.fields.agent
        /\ installedManifest.fields.version =
             IF Len(sys_argv) >= 2 /\ sys_argv[2] # "" THEN sys_argv[2] ELSE "v0.0.1"
        /\ <<"assets/interface.json", "interface.json">> \in installed

C11_Witness ==
    /\ ipc = "chores"
    /\ sys_argv = <<"install.py", "">>
    /\ assetsManifest.comments
    /\ assetsManifest.fields.version = "v0.0.0"
    /\ assetsManifest.fields.agent = "python"
    /\ installedManifest.fields.version = "v0.0.1"
    /\ installedManifest.fields.agent = "python"

\* The step at hand posts a click job.
ClickPosted == hostOp'.op = "post_click" /\ (hostOp' # hostOp \/ pc = "post_click")

\* C12 as stated: a step in which a click job has completed posts no
\* further click, whatever raises after that click.
C12_OneClickPerStep == hostOp.op = "post_click" => Node(hostOp.step) \notin clickDone

\* C12: each attempt of steps 2-5 posts at most one click job: a click is
\* posted only by line 157 of an attempt that has posted none, and a step
\* posts a click again only in a later attempt, begun after its handler ran.
C12_OneClickPerAttempt ==
    /\ [](clickAt \in {0, attempt})
    /\ [](clickAt # 0 => step \in 2 .. 5 /\ attempt \in 1 .. Budget(retry_times))
    /\ [][ClickPosted => /\ pc = "post_click" /\ attempt >= 1
                         /\ clickAt = 0 /\ clickAt' = attempt]_vars
    /\ [][clickAt # 0 /\ clickAt' # clickAt =>
            /\ clickAt' = 0
            /\ pc \in {"except", "run_check"}]_vars

C12_Witness ==
    /\ hostOp.op = "post_click" /\ pc = "wait_click"
    /\ Node(step) \in clickDone
    /\ attempt = 2 /\ clickAt = 2 /\ hostOp.attempt = 2

\* The step at hand calls run_recognition.
RecoIssued == recoTotal' # recoTotal

\* C13: in steps 2-5 every recognition is run on the image read in the
\* same attempt after that attempt's screencap completed; every click is
\* posted in an attempt whose recognition, on that image, returned a box of
\* nonzero width; an attempt whose result is empty, has no box or has width
\* 0 posts no click and ends there.
C13_ClickOnFreshRecognition ==
    /\ [](imageAt \in {0, attempt} /\ capAt \in {0, attempt} /\ recoAt \in {0, attempt})
    /\ [](imageAt # 0 => capAt = imageAt)
    /\ [](recoAt # 0 => imageAt = recoAt)
    /\ [][RecoIssued =>
            /\ pc = "reco" /\ step \in 2 .. 5 /\ attempt >= 1
            /\ capAt = attempt /\ imageAt = attempt
            /\ hostOp = [Op("cached_image", 0, "", "") EXCEPT !.attempt = attempt]
            /\ hostOp'.op = "run_recognition" /\ hostOp'.attempt = attempt]_vars
    /\ [][ClickPosted =>
            /\ recoAt = attempt /\ imageAt = attempt /\ capAt = attempt
            /\ reco_result.kind = "box" /\ reco_result.w # 0
            /\ hostOp.op = "run_recognition" /\ hostOp.attempt = attempt
            /\ hostOp.step = step]_vars
    /\ [][pc = "check" /\ ~(reco_result.kind = "box" /\ reco_result.w # 0) =>
            /\ hostOp' = hostOp /\ clickAt' = 0 /\ clickDone' = clickDone
            /\ pc' \in {"loop", "except", "run_check"}]_vars

C13_Witness ==
    /\ step = 3 /\ attempt = 2 /\ recoInStep = 2
    /\ pc = "wait_click" /\ hostOp.op = "post_click"
    /\ reco_result.kind = "box" /\ reco_result.w = 1
    /\ recoAt = 2 /\ imageAt = 2 /\ capAt = 2

\* The step at hand posts a key job.
KeyPosted == hostOp'.op = "post_click_key" /\ (hostOp' # hostOp \/ pc = "s1_post_key")

\* C14: the key job, for key 27, is posted only as the first host operation
\* of the invocation, hence at most once and never again after a failure;
\* every recognition and every click comes after the key job completed and
\* step 1 returned True; when step 1 fails (the key job, the wait_delay
\* sleep or the screencap raised) run returns false and no recognition or
\* click has been issued.
C14_EscOnceAndFirst ==
    /\ [][KeyPosted => /\ pc = "s1_post_key" /\ step = 1
                       /\ hostOp = NoOp /\ hostOp'.key = 27]_vars
    /\ [][hostOp # NoOp => hostOp' # NoOp]_vars
    /\ []((hostOp.op \in {"run_recognition", "post_click"} \/ recoTotal > 0
              \/ clickAt # 0 \/ clickDone # {})
            => keyDone /\ stepsOK >= 1 /\ failedStep # 1)
    /\ [](failedStep = 1 =>
            /\ pc \in {"run_check", "done"}
            /\ pc = "done" => result = "false"
            /\ hostOp.step = 1
            /\ hostOp.op \in {"post_click_key", "wait", "post_screencap"}
            /\ recoTotal = 0 /\ clickAt = 0 /\ clickDone = {} /\ stepsOK = 0)

C14_Witness ==
    /\ failedStep = 1 /\ pc = "done" /\ result = "false"
    /\ keyDone /\ lastSleep.what = "delay"
    /\ hostOp.op = "wait" /\ hostOp.key = 0

\* custom_action_param is a string that is no JSON, or JSON of a value that
\* is no object.
Malformed == argv.kind = "str" /\ argv.json \in {"invalid", "array"}

\* C15: on a malformed parameter run issues no host operation and no sleep:
\* it goes from the parsing to its except clause and returns false.
C15_MalformedNoHostOperation ==
    Malformed =>
        /\ pc \in {"parse", "run_except", "done"}
        /\ pc = "done" => result = "false" /\ topCaught
        /\ step = 0 /\ hostOp = NoOp /\ inflight = 0 /\ lastSleep = NoSleep
        /\ ~keyDone /\ clickDone = {} /\ clickAt = 0 /\ recoTotal = 0
        /\ template_path = Unbound /\ retry_times = Unbound

C15_Witness ==
    /\ argv = [kind |-> "str", json |-> "array", m |-> EmptyMapping]
    /\ pc = "done" /\ result = "false" /\ topCaught
    /\ hostOp = NoOp /\ step = 0

\* C16: with an int retry_times <= 0 the loop of step 2 has no first value:
\* the step returns False without a host operation or a sleep, so the only
\* host operations of the run are those of step 1, beginning with the key
\* press, no recognition and no click is issued, and run returns false.
C16_NoBudgetNoAttempt ==
    (retry_times.t = "int" /\ retry_times.n <= 0) =>
        /\ step \in 1 .. 2 /\ attempt = 0
        /\ recoTotal = 0 /\ recoInStep = 0 /\ clickAt = 0 /\ clickDone = {}
        /\ capAt = 0 /\ retrySleeps = 0 /\ escapedFrom = 0 /\ ~topCaught
        /\ hostOp.step \in 0 .. 1
        /\ hostOp.op \in {"none", "post_click_key", "wait", "post_screencap"}
        /\ lastSleep.what \in {"none", "delay"}
        /\ step = 2 =>
             /\ pc \in {"range", "loop", "run_check", "done"}
             /\ keyDone /\ stepsOK = 1
             /\ hostOp = [op |-> "wait", step |-> 1, attempt |-> 0, key |-> 0,
                          node |-> "", override |-> ""]
             /\ pc \in {"run_check", "done"} => failedStep = 2 /\ ~stepRet
        /\ pc = "done" => result = "false" /\ hostOp.op # "none" /\ failedStep = step

C16_Witness ==
    /\ retry_times = IntV(0)
    /\ pc = "done" /\ result = "false" /\ step = 2 /\ failedStep = 2
    /\ keyDone /\ recoTotal = 0 /\ hostOp.step = 1

\* C17: run eventually returns, whatever the host's calls do, and stays
\* returned; on the way the key job is posted at most once, a step begins
\* an attempt only from the head of its loop while attempt < retry_times,
\* and after its last attempt the step returns instead of looping.
C17_RunTerminates ==
    /\ <>(pc = "done")
    /\ [](pc = "done" => result \in {"true", "false"})
    /\ [][pc # "done"]_vars
    /\ [][KeyPosted => hostOp = NoOp]_vars
    /\ [][attempt' # attempt /\ step' = step =>
            /\ pc = "loop" /\ pc' = "post_cap"
            /\ attempt < retry_times.n /\ attempt' = attempt + 1]_vars
    /\ [][pc' = "post_cap" /\ pc # "post_cap" => pc = "loop" /\ attempt' = attempt + 1]_vars
    /\ [](pc = "loop" /\ attempt >= 1 => attempt < retry_times.n)
    /\ [][pc = "loop" /\ ~(attempt < retry_times.n) =>
            pc' = "run_check" /\ ~stepRet' /\ failedStep' = step]_vars

C17_Witness ==
    /\ pc = "done" /\ result = "false"
    /\ retry_times = IntV(MaxRetryTimes)
    /\ step = 5 /\ failedStep = 5 /\ attempt = MaxRetryTimes
    /\ recoTotal = 4 * MaxRetryTimes

\* The copies install_deps makes.
DepsCopies == {<<"deps/bin", ".">>, <<"deps/share/MaaAgentBinary", "MaaAgentBinary">>}

\* C18: without deps/bin the script ends in install_deps through
\* sys.exit(1), having written nothing under install_path and called no
\* other stage. With deps/bin the stages are called in the order deps,
\* resource, chores, agent, each after the one before it returned; the
\* script ends with status 0 only after all four, and before that only
\* through an exception of a stage (a missing source, a manifest that cannot
\* be rewritten).
C18_FailsBeforeWriting ==
    /\ "deps/bin" \notin srcTree =>
         /\ installed = {} /\ installedManifest = NoFile
         /\ stages \in {<<>>, <<"deps">>}
         /\ ipc \in {"load", "deps", "exited"}
         /\ ipc = "exited" => exit = [how |-> "sys.exit", status |-> 1, at |-> "deps"]
    /\ "deps/bin" \in srcTree => exit.how # "sys.exit"
    /\ stages = SubSeq(<<"deps", "resource", "chores", "agent">>, 1, Len(stages))
    /\ Len(stages) >= 2 => DepsCopies \subseteq installed
    /\ Len(stages) >= 3 =>
         /\ <<"assets/resource", "resource">> \in installed
         /\ installedManifest.kind = "object"
    /\ Len(stages) >= 4 =>
         /\ <<"README.md", "README.md">> \in installed
         /\ <<"LICENSE", "LICENSE">> \in installed
         /\ \E src \in srcTree : <<src, "requirements.txt">> \in installed
    /\ installed # {} => <<"deps/bin", ".">> \in installed
    /\ exit.how = "returned" =>
         /\ Len(stages) = 4 /\ <<"agent", "agent">> \in installed
         /\ exit.status = 0
    /\ exit.how = "traceback" =>
         /\ exit.status = 1
         /\ \/ srcTree # SourcePaths
            \/ assetsManifest.kind # "object"
            \/ exit.at = "resource"

C18_Witness ==
    /\ ipc = "exited" /\ exit.how = "sys.exit" /\ exit.status = 1
    /\ srcTree = SourcePaths \ {"deps/bin"}
    /\ sys_argv = <<"install.py", "v1.2.0">>
    /\ installed = {} /\ stages = <<"deps">>

====
